---- MODULE Spec2Model ----
(***************************************************************************)
(* A model of the leveled Logger of package log (MDGSF/utils).             *)
(*                                                                         *)
(* Strings are sequences of one-byte characters; a character is a TLA+     *)
(* string holding that byte ("ESC" stands for the byte 0x1b).  Goroutines  *)
(* are the members of Procs.  Every statement of Logger.Output that        *)
(* touches the mutex, the scratch buffer or the writer is a step of its    *)
(* own, so that goroutines interleave exactly where the code lets them.    *)
(***************************************************************************)
EXTENDS Integers, Sequences, FiniteSets

VARIABLES
    mu,             \* Logger.mu: 0 when unlocked, else the goroutine that locked it
    contentPrefix,  \* Logger.contentPrefix
    prefix,         \* Logger.prefix
    suffix,         \* Logger.suffix
    flag,           \* Logger.flag
    buf,            \* Logger.buf
    level,          \* Logger.level
    out,            \* Logger.out: the writer lines go to
    isTerminal,     \* Logger.isTerminal
    callDepth,      \* Logger.callDepth
    sink,           \* per writer, the sequence of Write calls it received
    pc,             \* per goroutine, the statement it is at
    fr,             \* per goroutine, the frame of the method it is in
    seen,           \* per goroutine, the configurations the Logger held during its call
    racy,           \* the configuration fields touched so far by a goroutine not holding mu
    exit,           \* 0 while the program runs, else its exit status
    ncalls,         \* emit calls started so far
    nsets           \* configuration mutations started so far

vars == <<mu, contentPrefix, prefix, suffix, flag, buf, level, out, isTerminal,
          callDepth, sink, pc, fr, seen, racy, exit, ncalls, nsets>>

-----------------------------------------------------------------------------
(* Bounds of the model.                                                    *)

NProcs == 2
MaxCalls == 2
MaxSets == 2
MaxCallDepth == 3
PadSlack == 1

Procs == 1..NProcs

-----------------------------------------------------------------------------
(* Constants of package log.                                               *)

MaxContextLen == 66

PanicLevel == 0
FatalLevel == 1
ErrorLevel == 2
WarnLevel == 3
InfoLevel == 4
DebugLevel == 5
VerboseLevel == 6

Ldate == 1
Ltime == 2
Lmicroseconds == 4
Llongfile == 8
Lshortfile == 16
LUTC == 32
LLevel == 64

IsTerminal == 0
NotTerminal == 1

DefaultCallDepth == 2

Levels == PanicLevel..VerboseLevel
GatedLevels == ErrorLevel..VerboseLevel

-----------------------------------------------------------------------------
(* Characters and strings.                                                 *)

NL == "\n"
SP == " "

RECURSIVE Repeat(_, _)
Repeat(c, n) == IF n <= 0 THEN <<>> ELSE <<c>> \o Repeat(c, n - 1)

DigitChars == <<"0", "1", "2", "3", "4", "5", "6", "7", "8", "9">>

\* flag&bit != 0
Bit(f, bit) == (f \div bit) % 2 = 1

\* flag&(b1|b2|...) != 0
AnyBit(f, bits) == \E b \in bits : Bit(f, b)

\* Cheap integer to fixed-width decimal ASCII; a negative width avoids zero-padding.
RECURSIVE itoa(_, _)
itoa(i, wid) ==
    IF i >= 10 \/ wid > 1
    THEN itoa(i \div 10, wid - 1) \o <<DigitChars[(i - (i \div 10) * 10) + 1]>>
    ELSE <<DigitChars[i + 1]>>

\* Level.String()
LevelString(lv) ==
    CASE lv = PanicLevel -> <<"P", "A", "N", "I", "C">>
      [] lv = FatalLevel -> <<"F", "A", "T", "A", "L">>
      [] lv = ErrorLevel -> <<"E", "R", "R", "O", "R">>
      [] lv = WarnLevel -> <<"W", "A", "R", "N">>
      [] lv = InfoLevel -> <<"I", "N", "F", "O">>
      [] lv = DebugLevel -> <<"D", "E", "B", "U", "G">>
      [] OTHER -> <<"V", "E", "R", "B", "O", "S", "E">>

\* Level.Color(): one of nocolor, red, green, yellow, blue, gray
LevelColor(lv) ==
    CASE lv = PanicLevel -> 31
      [] lv = FatalLevel -> 31
      [] lv = ErrorLevel -> 31
      [] lv = WarnLevel -> 33
      [] lv = InfoLevel -> 32
      [] lv = DebugLevel -> 36
      [] OTHER -> 37

\* The level tag of formatHeader: the name, colored on a terminal.
LevelTag(term, lv) ==
    IF term = IsTerminal
    THEN <<"ESC", "[">> \o itoa(LevelColor(lv), -1) \o <<"m">> \o LevelString(lv)
             \o <<"ESC", "[", "0", "m">>
    ELSE LevelString(lv)

\* The loop of formatHeader that finds the final path element: i runs from
\* len(file)-1 down to 1 (0-based), so the byte at index 0 is never looked at.
RECURSIVE ShortScan(_, _)
ShortScan(file, i) ==
    IF i > 0
    THEN IF file[i + 1] = "/"
         THEN SubSeq(file, i + 2, Len(file))
         ELSE ShortScan(file, i - 1)
    ELSE file

ShortFile(file) == ShortScan(file, Len(file) - 1)

\* The date and time segment of formatHeader.
DateTime(f, t) ==
    LET tt == IF Bit(f, LUTC) THEN t.utc ELSE t.local
        d == IF Bit(f, Ldate)
             THEN itoa(tt.year, 4) \o <<"/">> \o itoa(tt.month, 2) \o <<"/">>
                      \o itoa(tt.day, 2) \o <<SP>>
             ELSE <<>>
        c == IF AnyBit(f, {Ltime, Lmicroseconds})
             THEN itoa(tt.hour, 2) \o <<":">> \o itoa(tt.min, 2) \o <<":">>
                      \o itoa(tt.sec, 2)
                      \o (IF Bit(f, Lmicroseconds)
                          THEN <<".">> \o itoa(tt.usec, 6) ELSE <<>>)
                      \o <<SP>>
             ELSE <<>>
    IN  IF AnyBit(f, {Ldate, Ltime, Lmicroseconds}) THEN d \o c ELSE <<>>

\* The file and line segment of formatHeader.
Location(f, file, line) ==
    IF AnyBit(f, {Lshortfile, Llongfile})
    THEN (IF Bit(f, Lshortfile) THEN ShortFile(file) ELSE file)
             \o <<":">> \o itoa(line, -1) \o <<":", SP>>
    ELSE <<>>

\* formatHeader: what it appends to the buffer.
formatHeader(pfx, f, term, t, file, line, lv) ==
    pfx
        \o (IF Bit(f, LLevel) THEN LevelTag(term, lv) \o <<SP>> ELSE <<>>)
        \o DateTime(f, t)
        \o Location(f, file, line)

\* Output: the length the padding is computed from (sLen).
LogicalLenNoStrip(s) == Len(s)

LogicalLen(s) ==
    IF Len(s) > 0 /\ s[Len(s)] = NL THEN Len(s) - 1 ELSE Len(s)

\* Output: the part of s appended to the buffer.
BodyText(s) ==
    IF Len(s) > 0 /\ s[Len(s)] = NL THEN SubSeq(s, 1, Len(s) - 1) ELSE s

\* Output: the blanks between the body and a non-empty suffix.
Padding(sLen) ==
    IF sLen < MaxContextLen THEN Repeat(SP, MaxContextLen - sLen) ELSE <<>>

\* Output: the final newline, appended when the buffer does not end in one.
EnsureNewlineNever(b) == b

EnsureNewline(b) ==
    IF Len(b) = 0 \/ b[Len(b)] # NL THEN b \o <<NL>> ELSE b

\* Output, after the header: content prefix, body, padding, suffix, newline.
AppendBody(b, cp, s, suf) ==
    LET b1 == IF Len(cp) > 0 THEN b \o cp ELSE b
        b2 == b1 \o BodyText(s)
        b3 == IF Len(suf) > 0 THEN b2 \o Padding(LogicalLen(s)) \o suf ELSE b2
    IN  EnsureNewline(b3)

\* fmt.Sprint / fmt.Sprintf / fmt.Sprintln of one text operand.
Sprint(variant, text) == IF variant = "ln" THEN text \o <<NL>> ELSE text

\* The test of the per-level methods: l.level >= XxxLevel.
GateStrict(m, lv) == m > lv

Gate(m, lv) == m >= lv

-----------------------------------------------------------------------------
(* The state of the goroutines.                                            *)

T1 == [local |-> [year |-> 2009, month |-> 1, day |-> 23, hour |-> 1, min |-> 23,
                  sec |-> 23, usec |-> 123123],
       utc |-> [year |-> 2009, month |-> 1, day |-> 22, hour |-> 17, min |-> 23,
                sec |-> 23, usec |-> 123123]]

T2 == [local |-> [year |-> 987, month |-> 12, day |-> 5, hour |-> 0, min |-> 0,
                  sec |-> 9, usec |-> 42],
       utc |-> [year |-> 987, month |-> 12, day |-> 5, hour |-> 0, min |-> 0,
                sec |-> 9, usec |-> 42]]

Writers == {1, 2}
Errors == {"nil", "EIO"}

\* The frame of a goroutine that is in no method.
NoFrame ==
    [op |-> "none", variant |-> "", lv |-> 0, text |-> <<>>, s |-> <<>>,
     calldepth |-> 0, now |-> T1, file |-> <<>>, line |-> 0, passed |-> FALSE,
     sawFile |-> FALSE,
     err |-> "nil", nwrites |-> 0, wrote |-> <<>>, ret |-> "none", panicVal |-> <<>>,
     locks |-> 0, unlocks |-> 0, val |-> 0, str |-> <<>>]

\* The configuration the Logger holds.
Cfg ==
    [level |-> level, flag |-> flag, prefix |-> prefix, contentPrefix |-> contentPrefix,
     suffix |-> suffix, isTerminal |-> isTerminal, callDepth |-> callDepth, out |-> out]

cfgVars == <<contentPrefix, prefix, suffix, flag, level, out, isTerminal, callDepth>>

Running == exit = 0

\* A step of p touches the configuration fields fs: those touched while p does not
\* hold the mutex are recorded.
Access(p, fs) == racy' = IF mu = p THEN racy ELSE racy \cup fs

\* p is inside an emit method that has not yet returned, panicked or exited.
InCall(p) == pc[p] \notin {"idle", "set", "get", "done", "panicked", "exited"}

-----------------------------------------------------------------------------
(* The Logger after New(out, prefix, suffix, flag, level, isTerminal).     *)

New(w, pfx, suf, f, lv, term) ==
    /\ mu = 0
    /\ contentPrefix = <<>>
    /\ prefix = pfx
    /\ suffix = suf
    /\ flag = f
    /\ buf = <<>>
    /\ level = lv
    /\ out = w
    /\ isTerminal = term
    /\ callDepth = DefaultCallDepth
    /\ sink = [x \in Writers |-> <<>>]
    /\ pc = [p \in Procs |-> "idle"]
    /\ fr = [p \in Procs |-> NoFrame]
    /\ seen = [p \in Procs |-> {}]
    /\ racy = {}
    /\ exit = 0
    /\ ncalls = 0
    /\ nsets = 0

-----------------------------------------------------------------------------
(* sync.Mutex.                                                             *)

\* l.mu.Lock() of Output after the caller lookup.
ReacquireSkipped(p) == mu' = mu

Reacquire(p) == mu = 0 /\ mu' = p

\* l.mu.Unlock(): unlocking an unlocked mutex is a fatal error of the runtime.
Unlock ==
    /\ mu' = 0
    /\ exit' = IF mu = 0 THEN 2 ELSE exit

-----------------------------------------------------------------------------
(* Entry of the emit methods.                                              *)

\* Where a method starts: the per-level methods at their test of l.level, the
\* others at the evaluation of Output's arguments, Output at its l.mu.Lock().
MethodStartRaiseFirst(op) ==
    CASE op = "Level" -> "gate"
      [] op = "Output" -> "lock"
      [] op = "Print" -> "args"
      [] OTHER -> "raise"

MethodStart(op) ==
    CASE op = "Level" -> "gate"
      [] op = "Output" -> "lock"
      [] OTHER -> "args"

Enter(p, f) ==
    /\ Running
    /\ pc[p] = "idle"
    /\ ncalls < MaxCalls
    /\ ncalls' = ncalls + 1
    /\ fr' = [fr EXCEPT ![p] = f]
    /\ pc' = [pc EXCEPT ![p] = MethodStart(f.op)]
    /\ seen' = [seen EXCEPT ![p] = {Cfg}]
    /\ UNCHANGED <<mu, cfgVars, buf, sink, racy, exit, nsets>>

\* l.Output(calldepth, s, level) called directly; now := time.Now() is its first
\* statement, before the mutex is taken.
Output(p, cd, s, lv, t) ==
    Enter(p, [NoFrame EXCEPT !.op = "Output", !.calldepth = cd, !.s = s, !.lv = lv,
                             !.now = t])

\* Error, Errorf, Errorln, ..., Verbose, Verbosef, Verboseln.
LevelMethod(p, lv, variant, text) ==
    Enter(p, [NoFrame EXCEPT !.op = "Level", !.lv = lv, !.variant = variant,
                             !.text = text])

\* Print, Printf, Println.
PrintMethod(p, variant, text) ==
    Enter(p, [NoFrame EXCEPT !.op = "Print", !.variant = variant, !.text = text])

\* Panic, Panicf, Panicln.
Panic(p, variant, text) ==
    Enter(p, [NoFrame EXCEPT !.op = "Panic", !.lv = PanicLevel, !.variant = variant,
                             !.text = text])

\* Fatal, Fatalf, Fatalln.
Fatal(p, variant, text) ==
    Enter(p, [NoFrame EXCEPT !.op = "Fatal", !.lv = FatalLevel, !.variant = variant,
                             !.text = text])

\* if l.level >= XxxLevel: the field is read without the mutex.
LevelGate(p) ==
    /\ Running
    /\ pc[p] = "gate"
    /\ Access(p, {"level"})
    /\ IF Gate(level, fr[p].lv)
       THEN /\ pc' = [pc EXCEPT ![p] = "args"]
            /\ fr' = [fr EXCEPT ![p].passed = TRUE]
       ELSE /\ pc' = [pc EXCEPT ![p] = "done"]
            /\ fr' = [fr EXCEPT ![p].ret = "void"]
    /\ UNCHANGED <<mu, cfgVars, buf, sink, seen, exit, ncalls, nsets>>

\* The arguments of l.Output(l.callDepth, fmt.Sprint..(..), ..): l.callDepth is
\* read without the mutex and the text is formatted.  Print has one more argument
\* to read; the others call Output, whose first statement is now := time.Now().
Args(p, t) ==
    /\ Running
    /\ pc[p] = "args"
    /\ Access(p, {"callDepth"})
    /\ fr' = [fr EXCEPT ![p].calldepth = callDepth,
                        ![p].s = Sprint(fr[p].variant, fr[p].text),
                        ![p].now = IF fr[p].op = "Print" THEN @ ELSE t]
    /\ pc' = [pc EXCEPT ![p] = IF fr[p].op = "Print" THEN "rdlevel" ELSE "lock"]
    /\ UNCHANGED <<mu, cfgVars, buf, sink, seen, exit, ncalls, nsets>>

\* The last argument of Print's l.Output(.., .., l.level), read without the mutex;
\* then Output's now := time.Now().
PrintLevel(p, t) ==
    /\ Running
    /\ pc[p] = "rdlevel"
    /\ Access(p, {"level"})
    /\ fr' = [fr EXCEPT ![p].lv = level, ![p].now = t]
    /\ pc' = [pc EXCEPT ![p] = "lock"]
    /\ UNCHANGED <<mu, cfgVars, buf, sink, seen, exit, ncalls, nsets>>

-----------------------------------------------------------------------------
(* Logger.Output, statement by statement.                                  *)

\* l.mu.Lock(); defer l.mu.Unlock()
OutputLock(p) ==
    /\ Running
    /\ pc[p] = "lock"
    /\ mu = 0
    /\ mu' = p
    /\ fr' = [fr EXCEPT ![p].locks = @ + 1]
    /\ pc' = [pc EXCEPT ![p] = "chk"]
    /\ UNCHANGED <<cfgVars, buf, sink, seen, racy, exit, ncalls, nsets>>

\* if l.flag&(Lshortfile|Llongfile) != 0 { l.mu.Unlock() ...
OutputCheckFlag(p) ==
    /\ Running
    /\ pc[p] = "chk"
    /\ Access(p, {"flag"})
    /\ IF AnyBit(flag, {Lshortfile, Llongfile})
       THEN /\ Unlock
            /\ fr' = [fr EXCEPT ![p].sawFile = TRUE, ![p].unlocks = @ + 1]
            /\ pc' = [pc EXCEPT ![p] = "caller"]
       ELSE /\ UNCHANGED <<mu, exit>>
            /\ fr' = fr
            /\ pc' = [pc EXCEPT ![p] = "reset"]
    /\ UNCHANGED <<cfgVars, buf, sink, seen, ncalls, nsets>>

\* _, file, line, ok = runtime.Caller(calldepth); if !ok { file = "???"; line = 0 }
OutputCaller(p, ok, file, line) ==
    /\ Running
    /\ pc[p] = "caller"
    /\ fr' = [fr EXCEPT ![p].file = IF ok THEN file ELSE <<"?", "?", "?">>,
                        ![p].line = IF ok THEN line ELSE 0]
    /\ pc' = [pc EXCEPT ![p] = "relock"]
    /\ UNCHANGED <<mu, cfgVars, buf, sink, seen, racy, exit, ncalls, nsets>>

\* ... l.mu.Lock() }
OutputRelock(p) ==
    /\ Running
    /\ pc[p] = "relock"
    /\ Reacquire(p)
    /\ fr' = [fr EXCEPT ![p].locks = @ + 1]
    /\ pc' = [pc EXCEPT ![p] = "reset"]
    /\ UNCHANGED <<cfgVars, buf, sink, seen, racy, exit, ncalls, nsets>>

\* l.buf = l.buf[:0]
OutputReset(p) ==
    /\ Running
    /\ pc[p] = "reset"
    /\ buf' = <<>>
    /\ pc' = [pc EXCEPT ![p] = "hdr"]
    /\ UNCHANGED <<mu, cfgVars, sink, fr, seen, racy, exit, ncalls, nsets>>

\* l.formatHeader(&l.buf, now, file, line, level)
OutputHeader(p) ==
    /\ Running
    /\ pc[p] = "hdr"
    /\ buf' = buf \o formatHeader(prefix, flag, isTerminal, fr[p].now, fr[p].file,
                                  fr[p].line, fr[p].lv)
    /\ pc' = [pc EXCEPT ![p] = "body"]
    /\ Access(p, {"prefix", "flag", "isTerminal"})
    /\ UNCHANGED <<mu, cfgVars, sink, fr, seen, exit, ncalls, nsets>>

\* The appends of the content prefix, the body, the padding, the suffix and the
\* newline.
OutputBody(p) ==
    /\ Running
    /\ pc[p] = "body"
    /\ buf' = AppendBody(buf, contentPrefix, fr[p].s, suffix)
    /\ pc' = [pc EXCEPT ![p] = "write"]
    /\ Access(p, {"contentPrefix", "suffix"})
    /\ UNCHANGED <<mu, cfgVars, sink, fr, seen, exit, ncalls, nsets>>

\* What Output returns: the error of the Write.
OutputResultDropped(e) == "nil"

OutputResult(e) == e

\* _, err := l.out.Write(l.buf): the writer receives the buffer in one call, which
\* succeeds or fails.
OutputWrite(p, e) ==
    /\ Running
    /\ pc[p] = "write"
    /\ sink' = [sink EXCEPT ![out] = Append(@, buf)]
    /\ fr' = [fr EXCEPT ![p].err = e, ![p].nwrites = @ + 1, ![p].wrote = buf]
    /\ pc' = [pc EXCEPT ![p] = "unlock"]
    /\ Access(p, {"out"})
    /\ UNCHANGED <<mu, cfgVars, buf, seen, exit, ncalls, nsets>>

\* return err, which runs the deferred l.mu.Unlock(); the calling method then goes
\* on: Panic and Fatal to their panic(s) and os.Exit(1), the others return.
OutputReturn(p) ==
    /\ Running
    /\ pc[p] = "unlock"
    /\ Unlock
    /\ fr' = [fr EXCEPT ![p].unlocks = @ + 1,
                        ![p].ret = IF fr[p].op = "Output"
                                   THEN OutputResult(fr[p].err) ELSE "void"]
    /\ pc' = [pc EXCEPT ![p] = IF fr[p].op \in {"Panic", "Fatal"}
                               THEN "raise" ELSE "done"]
    /\ UNCHANGED <<cfgVars, buf, sink, seen, racy, ncalls, nsets>>

-----------------------------------------------------------------------------
(* The ends of the emit methods.                                           *)

\* panic(s) of Panic, Panicf, Panicln.
Raise(p) ==
    /\ Running
    /\ pc[p] = "raise"
    /\ fr[p].op = "Panic"
    /\ fr' = [fr EXCEPT ![p].panicVal = fr[p].s]
    /\ pc' = [pc EXCEPT ![p] = "panicked"]
    /\ UNCHANGED <<mu, cfgVars, buf, sink, seen, racy, exit, ncalls, nsets>>

\* os.Exit(1) of Fatal, Fatalf, Fatalln.
Exit(p) ==
    /\ Running
    /\ pc[p] = "raise"
    /\ fr[p].op = "Fatal"
    /\ exit' = 1
    /\ pc' = [pc EXCEPT ![p] = "exited"]
    /\ UNCHANGED <<mu, cfgVars, buf, sink, fr, seen, racy, ncalls, nsets>>

\* The panic is recovered by a deferred function of the caller.
Recover(p) ==
    /\ Running
    /\ pc[p] = "panicked"
    /\ pc' = [pc EXCEPT ![p] = "idle"]
    /\ fr' = [fr EXCEPT ![p] = NoFrame]
    /\ seen' = [seen EXCEPT ![p] = {}]
    /\ UNCHANGED <<mu, cfgVars, buf, sink, racy, exit, ncalls, nsets>>

\* The panic is not recovered: the program ends with status 2.
Crash(p) ==
    /\ Running
    /\ pc[p] = "panicked"
    /\ exit' = 2
    /\ UNCHANGED <<mu, cfgVars, buf, sink, pc, fr, seen, racy, ncalls, nsets>>

\* The method has returned to its caller.
Return(p) ==
    /\ Running
    /\ pc[p] = "done"
    /\ pc' = [pc EXCEPT ![p] = "idle"]
    /\ fr' = [fr EXCEPT ![p] = NoFrame]
    /\ seen' = [seen EXCEPT ![p] = {}]
    /\ UNCHANGED <<mu, cfgVars, buf, sink, racy, exit, ncalls, nsets>>

-----------------------------------------------------------------------------
(* Setters and getters: l.mu.Lock(); defer l.mu.Unlock(); the access.      *)

\* l.mu.Lock() of a setter called with the number v or with the string s.
Setter(p, op, v, s) ==
    /\ Running
    /\ pc[p] = "idle"
    /\ nsets < MaxSets
    /\ nsets' = nsets + 1
    /\ mu = 0
    /\ mu' = p
    /\ fr' = [fr EXCEPT ![p] = [NoFrame EXCEPT !.op = op, !.val = v, !.str = s]]
    /\ pc' = [pc EXCEPT ![p] = "set"]
    /\ UNCHANGED <<cfgVars, buf, sink, seen, racy, exit, ncalls>>

IncrOneCallDepth(p) == callDepth < MaxCallDepth /\ Setter(p, "callDepth++", 0, <<>>)
SetCallDepth(p, v) == Setter(p, "callDepth", v, <<>>)
SetIsTerminal(p, v) == Setter(p, "isTerminal", v, <<>>)
SetOutput(p, v) == Setter(p, "out", v, <<>>)
SetLevel(p, v) == Setter(p, "level", v, <<>>)
SetFlags(p, v) == Setter(p, "flag", v, <<>>)
SetPrefix(p, v) == Setter(p, "prefix", 0, v)
SetContentPrefix(p, v) == Setter(p, "contentPrefix", 0, v)
SetSuffix(p, v) == Setter(p, "suffix", 0, v)

\* The assignment of the setter and its deferred l.mu.Unlock().
SetterAssign(p) ==
    /\ Running
    /\ pc[p] = "set"
    /\ callDepth' = CASE fr[p].op = "callDepth++" -> callDepth + 1
                      [] fr[p].op = "callDepth" -> fr[p].val
                      [] OTHER -> callDepth
    /\ isTerminal' = IF fr[p].op = "isTerminal" THEN fr[p].val ELSE isTerminal
    /\ out' = IF fr[p].op = "out" THEN fr[p].val ELSE out
    /\ level' = IF fr[p].op = "level" THEN fr[p].val ELSE level
    /\ flag' = IF fr[p].op = "flag" THEN fr[p].val ELSE flag
    /\ prefix' = IF fr[p].op = "prefix" THEN fr[p].str ELSE prefix
    /\ contentPrefix' = IF fr[p].op = "contentPrefix" THEN fr[p].str
                        ELSE contentPrefix
    /\ suffix' = IF fr[p].op = "suffix" THEN fr[p].str ELSE suffix
    /\ Access(p, {IF fr[p].op = "callDepth++" THEN "callDepth" ELSE fr[p].op})
    /\ Unlock
    /\ fr' = [fr EXCEPT ![p] = NoFrame]
    /\ pc' = [pc EXCEPT ![p] = "idle"]
    /\ seen' = [q \in Procs |->
                  IF InCall(q)
                  THEN seen[q] \cup {[level |-> level', flag |-> flag',
                                      prefix |-> prefix',
                                      contentPrefix |-> contentPrefix',
                                      suffix |-> suffix', isTerminal |-> isTerminal',
                                      callDepth |-> callDepth', out |-> out']}
                  ELSE seen[q]]
    /\ UNCHANGED <<buf, sink, ncalls, nsets>>

\* l.mu.Lock() of the getter of a field.
Getter(p, field) ==
    /\ Running
    /\ pc[p] = "idle"
    /\ mu = 0
    /\ mu' = p
    /\ fr' = [fr EXCEPT ![p] = [NoFrame EXCEPT !.op = field]]
    /\ pc' = [pc EXCEPT ![p] = "get"]
    /\ UNCHANGED <<cfgVars, buf, sink, seen, racy, exit, ncalls, nsets>>

Level(p) == Getter(p, "level")
Flags(p) == Getter(p, "flag")
Prefix(p) == Getter(p, "prefix")
ContentPrefix(p) == Getter(p, "contentPrefix")
Suffix(p) == Getter(p, "suffix")

\* return l.<field> of the getter and its deferred l.mu.Unlock().
GetterRead(p) ==
    /\ Running
    /\ pc[p] = "get"
    /\ Access(p, {fr[p].op})
    /\ Unlock
    /\ fr' = [fr EXCEPT ![p] = NoFrame]
    /\ pc' = [pc EXCEPT ![p] = "idle"]
    /\ UNCHANGED <<cfgVars, buf, sink, seen, ncalls, nsets>>

-----------------------------------------------------------------------------
(* The steps a goroutine takes inside the emit methods and inside Output.  *)

\* The steps of Output; runtime.Caller answers (ok in oks) with one of files x
\* lines or fails, the Write ends with one of errs.
OutputSteps(p, oks, files, lines, errs) ==
    \/ OutputLock(p)
    \/ OutputCheckFlag(p)
    \/ \E ok \in oks, file \in files, line \in lines : OutputCaller(p, ok, file, line)
    \/ OutputRelock(p)
    \/ OutputReset(p)
    \/ OutputHeader(p)
    \/ OutputBody(p)
    \/ \E e \in errs : OutputWrite(p, e)
    \/ OutputReturn(p)
    \/ Return(p)

\* The steps of the emit methods around their call of Output.
MethodSteps(p, times) ==
    \/ LevelGate(p)
    \/ \E t \in times : Args(p, t)
    \/ \E t \in times : PrintLevel(p, t)
    \/ Raise(p)
    \/ Exit(p)
    \/ Recover(p)
    \/ Crash(p)

-----------------------------------------------------------------------------
(* Spec: NProcs goroutines emit through one Logger at once, while the      *)
(* level and the flags are being set.                                      *)

Texts == {<<"m">>}
Files == {<<"/", "a", "/", "d">>}
Lines == {23}

Init == New(1, <<>>, <<>>, 0, InfoLevel, NotTerminal)

Next ==
    \E p \in Procs :
        \/ \E x \in Texts : Output(p, DefaultCallDepth, x, InfoLevel, T1)
        \/ \E lv \in {WarnLevel, DebugLevel}, x \in Texts : LevelMethod(p, lv, "ln", x)
        \/ \E x \in Texts : PrintMethod(p, "f", x)
        \/ \E x \in Texts : Panic(p, "f", x)
        \/ \E x \in Texts : Fatal(p, "ln", x)
        \/ MethodSteps(p, {T1})
        \/ OutputSteps(p, BOOLEAN, Files, Lines, Errors)
        \/ SetLevel(p, PanicLevel)
        \/ SetFlags(p, Lshortfile + LLevel)
        \/ SetterAssign(p)

Spec == Init /\ [][Next]_vars

-----------------------------------------------------------------------------
(* SpecCfg: the goroutines but the last emit, through every method and at  *)
(* every level; the last one calls the setters and the getters.            *)

Emitters == Procs \ {NProcs}
Configurer == NProcs

FlagValues == {LLevel, Lshortfile + Ltime}

NextCfg ==
    \/ \E p \in Emitters :
        \/ \E x \in Texts : Output(p, DefaultCallDepth, x, InfoLevel, T1)
        \/ \E lv \in GatedLevels, v \in {"f", "ln"}, x \in Texts : LevelMethod(p, lv, v, x)
        \/ \E x \in Texts : PrintMethod(p, "f", x)
        \/ \E v \in {"f", "ln"}, x \in Texts : Panic(p, v, x)
        \/ \E x \in Texts : Fatal(p, "ln", x)
        \/ MethodSteps(p, {T1})
        \/ OutputSteps(p, BOOLEAN, Files, Lines, Errors)
    \/ IncrOneCallDepth(Configurer)
    \/ \E v \in DefaultCallDepth..MaxCallDepth : SetCallDepth(Configurer, v)
    \/ \E v \in {IsTerminal, NotTerminal} : SetIsTerminal(Configurer, v)
    \/ \E v \in Writers : SetOutput(Configurer, v)
    \/ \E v \in Levels : SetLevel(Configurer, v)
    \/ \E v \in FlagValues : SetFlags(Configurer, v)
    \/ \E v \in {<<>>, <<"p">>} : SetPrefix(Configurer, v)
    \/ \E v \in {<<>>, <<"c">>} : SetContentPrefix(Configurer, v)
    \/ \E v \in {<<>>, <<"s">>} : SetSuffix(Configurer, v)
    \/ SetterAssign(Configurer)
    \/ Level(Configurer)
    \/ Flags(Configurer)
    \/ Prefix(Configurer)
    \/ ContentPrefix(Configurer)
    \/ Suffix(Configurer)
    \/ GetterRead(Configurer)

SpecCfg == Init /\ [][NextCfg]_vars

-----------------------------------------------------------------------------
(* SpecOut: the goroutines call Output, and the last one the setters and   *)
(* the getters as well, under the scheduling Go gives them: a goroutine    *)
(* that can take a step takes one in the end, and a goroutine waiting in   *)
(* Lock gets the mutex in the end if it keeps being released (sync.Mutex   *)
(* hands a starved waiter the mutex); a Write returns.                     *)

NextOut ==
    \/ \E p \in Procs :
        \/ \E x \in Texts : Output(p, DefaultCallDepth, x, InfoLevel, T1)
        \/ OutputSteps(p, {TRUE}, Files, Lines, Errors)
    \/ IncrOneCallDepth(Configurer)
    \/ SetCallDepth(Configurer, MaxCallDepth)
    \/ SetIsTerminal(Configurer, IsTerminal)
    \/ SetOutput(Configurer, 2)
    \/ SetLevel(Configurer, ErrorLevel)
    \/ SetFlags(Configurer, 0)
    \/ SetPrefix(Configurer, <<"p">>)
    \/ SetContentPrefix(Configurer, <<"c">>)
    \/ SetSuffix(Configurer, <<"s">>)
    \/ SetterAssign(Configurer)
    \/ Level(Configurer)
    \/ Flags(Configurer)
    \/ Prefix(Configurer)
    \/ ContentPrefix(Configurer)
    \/ Suffix(Configurer)
    \/ GetterRead(Configurer)

\* The steps of p that wait for nothing.
Runs(p) ==
    \/ OutputCheckFlag(p)
    \/ \E file \in Files, line \in Lines : OutputCaller(p, TRUE, file, line)
    \/ OutputReset(p)
    \/ OutputHeader(p)
    \/ OutputBody(p)
    \/ \E e \in Errors : OutputWrite(p, e)
    \/ OutputReturn(p)
    \/ SetterAssign(p)
    \/ GetterRead(p)

InitOut == New(1, <<>>, <<>>, Lshortfile, InfoLevel, NotTerminal)

SpecOut ==
    /\ InitOut
    /\ [][NextOut]_vars
    /\ \A p \in Procs : WF_vars(Runs(p)) /\ SF_vars(OutputLock(p)) /\ SF_vars(OutputRelock(p))

-----------------------------------------------------------------------------
(* SpecFmt: one goroutine calls Output once on a Logger that New and       *)
(* SetContentPrefix have configured.  The bodies are as long as the        *)
(* padding column, give or take PadSlack, or at most PadSlack long; they   *)
(* end in no, one or two newlines.                                         *)

Main == CHOOSE p \in Procs : TRUE

FmtPrefixes == {<<>>, <<"p", NL>>}
FmtContentPrefixes == {<<>>, <<"c">>, <<NL>>}
FmtSuffixes == {<<>>, <<"s">>, <<"s", NL>>, <<NL, NL>>}
FmtFlags == {0, LLevel + Ldate, Ltime + Lmicroseconds + LUTC, Lshortfile, Llongfile,
             Lshortfile + Llongfile}
FmtFiles == {<<"/", "a", "/", "b", "/", "d">>, <<"/", "d">>, <<"d">>, <<"a", "/", "d">>,
             <<"a", "/">>}
FmtLines == {7, 23, 100}
FmtBodyLens == (0..PadSlack) \cup ((MaxContextLen - PadSlack)..(MaxContextLen + PadSlack))
FmtBodies ==
    {Repeat("a", n) : n \in FmtBodyLens}
        \cup {Repeat("a", n) \o <<NL>> : n \in FmtBodyLens}
        \cup {Repeat("a", n) \o <<NL, NL>> : n \in 0..PadSlack}

InitFmt ==
    \E pfx \in FmtPrefixes, cp \in FmtContentPrefixes, suf \in FmtSuffixes,
       f \in FmtFlags, term \in {IsTerminal, NotTerminal} :
        /\ mu = 0
        /\ contentPrefix = cp
        /\ prefix = pfx
        /\ suffix = suf
        /\ flag = f
        /\ buf = <<>>
        /\ level = InfoLevel
        /\ out = 1
        /\ isTerminal = term
        /\ callDepth = DefaultCallDepth
        /\ sink = [x \in Writers |-> <<>>]
        /\ pc = [p \in Procs |-> "idle"]
        /\ fr = [p \in Procs |-> NoFrame]
        /\ seen = [p \in Procs |-> {}]
        /\ racy = {}
        /\ exit = 0
        /\ ncalls = MaxCalls - 1
        /\ nsets = MaxSets

NextFmt ==
    \/ \E s \in FmtBodies : Output(Main, DefaultCallDepth, s, InfoLevel, T1)
    \/ OutputSteps(Main, BOOLEAN, FmtFiles, FmtLines, Errors)

SpecFmt == InitFmt /\ [][NextFmt]_vars

-----------------------------------------------------------------------------
(* What the claims speak of.                                               *)

\* The line a call with frame f assembles under configuration c.
Line(c, f) ==
    AppendBody(formatHeader(c.prefix, c.flag, c.isTerminal, f.now, f.file, f.line, f.lv),
               c.contentPrefix, f.s, c.suffix)

\* p has reset the buffer and not yet handed it to the writer.
InBuffer(p) == pc[p] \in {"hdr", "body", "write"}

\* The next step of p resets, appends to or writes the buffer.
AtBuffer(p) == pc[p] \in {"reset", "hdr", "body", "write"}

\* The call of p got past the test of its level, if it has one.
Reaches(f) == f.op \in {"Output", "Print", "Panic", "Fatal"} \/ (f.op = "Level" /\ f.passed)

\* Output, if it was called, has returned to the method of p.
Finished(p) == pc[p] \in {"done", "raise", "panicked", "exited"}

RECURSIVE SinkWrites(_)
SinkWrites(ws) ==
    IF ws = {} THEN 0
    ELSE LET w == CHOOSE x \in ws : TRUE IN Len(sink[w]) + SinkWrites(ws \ {w})

Written == UNION {{sink[w][i] : i \in 1..Len(sink[w])} : w \in Writers}

LevelsSeen(p) == {c.level : c \in seen[p]}

\* During the call of p only SetLevel and SetFlags changed the configuration.
OnlyLevelAndFlagsSet(p) ==
    \A c, d \in seen[p] : [c EXCEPT !.level = 0, !.flag = 0] = [d EXCEPT !.level = 0, !.flag = 0]

\* What configuration c alone makes of the call with frame f: whether it writes,
\* and the line.
Outcome(c, f) ==
    IF f.op = "Level" /\ ~(c.level >= f.lv)
    THEN [n |-> 0, bytes |-> <<>>]
    ELSE [n |-> 1,
          bytes |-> Line(c, [f EXCEPT !.lv = IF f.op = "Print" THEN c.level ELSE f.lv])]

-----------------------------------------------------------------------------
\* C1: whatever the interleaving of concurrent emit calls, no other call resets,
\* appends to or writes the scratch buffer between one call's reset and its Write,
\* each Write carries exactly the line one call assembled, and every Write the
\* sink received is a complete line.
C1_CompleteLines ==
    /\ \A p, q \in Procs : (p # q /\ InBuffer(p)) => ~AtBuffer(q)
    /\ \A p \in Procs :
         fr[p].nwrites > 0 =>
             /\ fr[p].nwrites = 1
             /\ \E c \in seen[p] : fr[p].wrote = Line(c, fr[p])
             /\ fr[p].wrote \in Written
    /\ \A b \in Written : Len(b) > 0 /\ b[Len(b)] = NL

\* One goroutine has written its line while another, which released the mutex to
\* look its caller up, waits to take it again.
C1_Witness ==
    \E p, q \in Procs :
        /\ p # q
        /\ pc[p] = "unlock" /\ fr[p].sawFile /\ fr[p].nwrites = 1
        /\ pc[q] = "relock"

\* C2: while the minimum level M stays the same during the call, a call at level
\* L of Error..Verbose writes exactly once when M >= L and not at all otherwise;
\* a Panic or Fatal call writes for every M.
C2_Gating ==
    \A p \in Procs :
        Cardinality(LevelsSeen(p)) = 1 =>
            LET m == CHOOSE x \in LevelsSeen(p) : TRUE
            IN  /\ (pc[p] = "done" /\ fr[p].op = "Level") =>
                       fr[p].nwrites = IF m >= fr[p].lv THEN 1 ELSE 0
                /\ (Finished(p) /\ fr[p].op \in {"Panic", "Fatal"}) => fr[p].nwrites = 1

\* A call at exactly the minimum level has written, while other fields changed.
C2_Witness ==
    \E p \in Procs :
        /\ pc[p] = "done" /\ fr[p].op = "Level"
        /\ LevelsSeen(p) = {fr[p].lv}
        /\ Cardinality(seen[p]) > 1
        /\ fr[p].nwrites = 1

\* C3: whatever SetLevel and SetFlags do during an emit call, one configuration
\* the Logger held during the call accounts for all the call did: whether it
\* wrote, the level on the line, and the line's format.
C3_OneSnapshot ==
    \A p \in Procs :
        (pc[p] \in {"done", "raise"} /\ OnlyLevelAndFlagsSet(p)) =>
            \E c \in seen[p] :
                Outcome(c, fr[p]) = [n |-> fr[p].nwrites, bytes |-> fr[p].wrote]

\* C4: every step that reads or writes a configuration field is taken by a
\* goroutine that holds the mutex.
C4_AccessUnderLock == racy = {}

\* C5 as amended: a call that reaches the sink invokes Write exactly once, with the
\* line it assembled, and no Write is repeated; Output returns the error of that
\* Write, and the methods around it, which return nothing, drop it.
C5_WriteOnce ==
    /\ \A p \in Procs :
         (Finished(p) /\ Reaches(fr[p])) =>
             /\ fr[p].nwrites = 1
             /\ fr[p].wrote \in Written
             /\ \E c \in seen[p] : fr[p].wrote = Line(c, fr[p])
             /\ pc[p] = "done" =>
                    fr[p].ret = IF fr[p].op = "Output" THEN fr[p].err ELSE "void"
    /\ SinkWrites(Writers) <= ncalls

\* A direct call of Output whose Write failed has returned that error.
C5_Witness ==
    \E p \in Procs :
        pc[p] = "done" /\ fr[p].op = "Output" /\ fr[p].err = "EIO" /\ fr[p].ret = "EIO"

\* C5 as claimed: every emit operation that reaches the sink hands a failure of
\* the Write to its caller.
C5_ErrorReachesCaller ==
    \A p \in Procs :
        (pc[p] = "done" /\ Reaches(fr[p]) /\ fr[p].err # "nil") =>
            fr[p].ret = fr[p].err

\* C6: when a Panic method is about to panic or has panicked, and when a Fatal
\* method is about to exit or has exited, the Write of the line has been called once
\* and has returned; the panic value is the text given to Output; the exit status
\* is 1.
C6_WriteBeforeEnd ==
    \A p \in Procs :
        pc[p] \in {"raise", "panicked", "exited"} =>
            /\ fr[p].nwrites = 1
            /\ fr[p].s = Sprint(fr[p].variant, fr[p].text)
            /\ pc[p] = "panicked" => (fr[p].op = "Panic" /\ fr[p].panicVal = fr[p].s)
            /\ pc[p] = "exited" => (fr[p].op = "Fatal" /\ exit = 1)

\* A Panic method has panicked after a failed Write, with the minimum level at
\* PanicLevel and flags set.
C6_Witness ==
    \E p \in Procs :
        /\ pc[p] = "panicked" /\ fr[p].err = "EIO"
        /\ level = PanicLevel /\ flag # 0

\* C10: in Output a goroutine holds the mutex whenever it unlocks it or touches
\* the buffer; with a file flag set at the first check the caller lookup runs with
\* the mutex released and the mutex is taken again before the buffer is reset;
\* otherwise the mutex is held from Lock to the return; every acquisition is
\* released exactly once, the last time by the return, and every call of Output
\* returns.
C10_LockDiscipline ==
    /\ [](\A p \in Procs :
            /\ pc[p] \in {"chk", "reset", "hdr", "body", "write", "unlock"} => mu = p
            /\ pc[p] \in {"caller", "relock"} => (mu # p /\ fr[p].sawFile)
            /\ (pc[p] \in {"reset", "hdr", "body", "write", "unlock"}) =>
                   /\ fr[p].locks = (IF fr[p].sawFile THEN 2 ELSE 1)
                   /\ fr[p].unlocks = fr[p].locks - 1
            /\ pc[p] = "done" => (mu # p /\ fr[p].unlocks = fr[p].locks)
            /\ exit = 0)
    /\ \A p \in Procs : (pc[p] \in {"lock", "relock"}) ~> (pc[p] = "done")

\* One goroutine looks its caller up, the mutex released, while another holds the
\* mutex and is about to write.
C10_Witness ==
    \E p, q \in Procs :
        /\ pc[p] = "caller" /\ fr[p].sawFile
        /\ pc[q] = "write" /\ mu = q /\ ~fr[q].sawFile

\* The newlines b ends in.
RECURSIVE TrailingNLs(_)
TrailingNLs(b) ==
    IF Len(b) > 0 /\ b[Len(b)] = NL THEN 1 + TrailingNLs(SubSeq(b, 1, Len(b) - 1)) ELSE 0

EndsInNL(b) == Len(b) > 0 /\ b[Len(b)] = NL

\* C7 as claimed: under every configuration, a body that ends in one newline or in
\* none is written as a line that ends in exactly one newline.
C7_ExactlyOneNewline ==
    \A p \in Procs :
        (fr[p].nwrites = 1 /\ TrailingNLs(fr[p].s) <= 1) => TrailingNLs(fr[p].wrote) = 1

\* C7 as amended: what Output writes always ends in a newline, and in exactly one
\* when the body ends in one newline or in none and neither the line prefix, the
\* content prefix nor the suffix ends in a newline.
C7_OneNewlineOfItsOwn ==
    \A p \in Procs :
        fr[p].nwrites = 1 =>
            /\ TrailingNLs(fr[p].wrote) >= 1
            /\ (/\ TrailingNLs(fr[p].s) <= 1
                /\ ~EndsInNL(prefix) /\ ~EndsInNL(contentPrefix) /\ ~EndsInNL(suffix))
                   => TrailingNLs(fr[p].wrote) = 1

\* A body that ends in a newline was written after a content prefix, before a
\* suffix, as a line ending in one newline.
C7_Witness ==
    \E p \in Procs :
        /\ fr[p].nwrites = 1
        /\ TrailingNLs(fr[p].s) = 1
        /\ contentPrefix = <<"c">> /\ suffix = <<"s">>
        /\ TrailingNLs(fr[p].wrote) = 1

\* C8: with n the length of the body less one trailing newline, the line holds,
\* after the header and the content prefix, the body, then 66 - n blanks when the
\* suffix is not empty and n < 66 and none otherwise, then the suffix, which thus
\* starts 66 places after the start of the body when n < 66.
C8_Padding ==
    \A p \in Procs :
        fr[p].nwrites = 1 =>
            LET w == fr[p].wrote
                s == fr[p].s
                h == Len(formatHeader(prefix, flag, isTerminal, fr[p].now, fr[p].file,
                                      fr[p].line, fr[p].lv)) + Len(contentPrefix)
                n == Len(s) - (IF Len(s) > 0 /\ s[Len(s)] = NL THEN 1 ELSE 0)
                k == IF suffix # <<>> /\ n < 66 THEN 66 - n ELSE 0
            IN  /\ Len(w) >= h + n + k + Len(suffix)
                /\ SubSeq(w, h + 1, h + n) = SubSeq(s, 1, n)
                /\ \A i \in (h + n + 1)..(h + n + k) : w[i] = SP
                /\ SubSeq(w, h + n + k + 1, h + n + k + Len(suffix)) = suffix
                /\ Len(w) <= h + n + k + Len(suffix) + 1
                /\ (suffix # <<>> /\ n < 66) => h + n + k = h + 66

\* A body of 65 bytes and a newline was written before a suffix.
C8_Witness ==
    \E p \in Procs :
        /\ fr[p].nwrites = 1
        /\ Len(fr[p].s) = 66 /\ EndsInNL(fr[p].s)
        /\ suffix = <<"s">>

\* The file path less every component up to and including its last '/'.
StripDirs(file) ==
    LET S == {i \in 1..Len(file) : file[i] = "/"}
    IN  IF S = {} THEN file
        ELSE SubSeq(file, (CHOOSE i \in S : \A j \in S : j <= i) + 1, Len(file))

\* The decimal digits of n, no more than needed.
RECURSIVE Decimal(_)
Decimal(n) ==
    IF n < 10 THEN <<DigitChars[n + 1]>> ELSE Decimal(n \div 10) \o <<DigitChars[(n % 10) + 1]>>

FileBits(f) ==
    (IF Bit(f, Lshortfile) THEN Lshortfile ELSE 0) + (IF Bit(f, Llongfile) THEN Llongfile ELSE 0)

\* C9: with the short-file flag set the header ends in the path less every
\* component up to and including its last '/', ':', the line number in decimal and
\* ": "; with the long-file flag alone, in the whole path, ':', the line and ": ".
C9_Location ==
    \A p \in Procs :
        (pc[p] = "body" /\ AnyBit(flag, {Lshortfile, Llongfile})) =>
            buf = formatHeader(prefix, flag - FileBits(flag), isTerminal, fr[p].now,
                               fr[p].file, fr[p].line, fr[p].lv)
                      \o (IF Bit(flag, Lshortfile) THEN StripDirs(fr[p].file) ELSE fr[p].file)
                      \o <<":">> \o Decimal(fr[p].line) \o <<":", SP>>

====
